---- MODULE Spec2Model ----
(***************************************************************************)
(* A model of the upload/retrieve file server of src/main.go.              *)
(*                                                                         *)
(* Strings are sequences of one-character strings, so that formatting,     *)
(* joining, cleaning and splitting of paths are computed character by      *)
(* character as the Go code computes them.  Byte strings (the output of    *)
(* the base64 decoder) are sequences of byte values.                       *)
(***************************************************************************)
EXTENDS Integers, Sequences, FiniteSets, TLC

VARIABLES
    req,        \* per connection: the ingest request it carries and the handler's position
    files,      \* the filesystem's regular files: path -> content
    dirs,       \* the filesystem's directories
    clock,      \* the server's wall clock, in days since Epoch
    issued,     \* how many identifiers uuid.New has returned
    reply,      \* the response just sent by a handler that ran in one step (a
                \* retrieval or a rejected ingest), until the handler returns
    authCfg,    \* credential check on its own: the configured pair
    authHeader, \* credential check on its own: the Authorization header
    authResult  \* credential check on its own: its outcome

vars == <<req, files, dirs, clock, issued, reply, authCfg, authHeader, authResult>>
serverVars == <<req, files, dirs, clock, issued, reply>>
authVars == <<authCfg, authHeader, authResult>>

(***************************************************************************)
(* Bounds                                                                  *)
(***************************************************************************)
MaxReq == 2
MaxClock == 1
MaxPlain == 3

Slots == 1..MaxReq

(***************************************************************************)
(* Strings                                                                 *)
(***************************************************************************)
SLASH == "/"
DOT == "."
DOTDOT == <<".", ".">>

Digits == <<"0", "1", "2", "3", "4", "5", "6", "7", "8", "9">>

RECURSIVE Itoa(_)
\* fmt's %d of a non-negative integer
Itoa(n) == IF n < 10 THEN <<Digits[n + 1]>> ELSE Itoa(n \div 10) \o <<Digits[(n % 10) + 1]>>

\* a variant of Pad2 that does not pad: %d in place of %02d
Pad2_OneDigit(n) == Itoa(n)

\* fmt's %02d of a non-negative integer
Pad2(n) == IF n < 10 THEN <<"0">> \o Itoa(n) ELSE Itoa(n)

RECURSIVE Split(_, _)
\* strings.Split(s, sep) for a one-character separator
Split(s, sep) ==
    IF \A i \in 1..Len(s) : s[i] # sep THEN <<s>>
    ELSE LET i == CHOOSE k \in 1..Len(s) : s[k] = sep /\ \A j \in 1..(k - 1) : s[j] # sep
         IN  <<SubSeq(s, 1, i - 1)>> \o Split(SubSeq(s, i + 1, Len(s)), sep)

RECURSIVE JoinSep(_, _)
\* strings.Join(elems, sep)
JoinSep(elems, sep) ==
    IF elems = <<>> THEN <<>>
    ELSE IF Len(elems) = 1 THEN elems[1]
    ELSE elems[1] \o <<sep>> \o JoinSep(Tail(elems), sep)

RECURSIVE CleanParts(_, _, _)
\* the element loop of filepath.Clean: "" and "." are dropped, ".." backs up
CleanParts(parts, out, rooted) ==
    IF parts = <<>> THEN out
    ELSE LET p == Head(parts)
             rest == Tail(parts)
         IN  IF p = <<>> \/ p = <<DOT>> THEN CleanParts(rest, out, rooted)
             ELSE IF p = DOTDOT
                  THEN IF out # <<>> /\ out[Len(out)] # DOTDOT
                       THEN CleanParts(rest, SubSeq(out, 1, Len(out) - 1), rooted)
                       ELSE IF rooted THEN CleanParts(rest, out, rooted)
                       ELSE CleanParts(rest, Append(out, p), rooted)
                  ELSE CleanParts(rest, Append(out, p), rooted)

\* filepath.Clean
Clean(path) ==
    IF path = <<>> THEN <<DOT>>
    ELSE LET rooted == path[1] = SLASH
             out == CleanParts(Split(path, SLASH), <<>>, rooted)
         IN  IF rooted THEN <<SLASH>> \o JoinSep(out, SLASH)
             ELSE IF out = <<>> THEN <<DOT>> ELSE JoinSep(out, SLASH)

\* filepath.Join: empty elements are ignored, the rest joined and cleaned
Join(elems) ==
    LET nonEmpty == SelectSeq(elems, LAMBDA e : e # <<>>)
    IN  IF nonEmpty = <<>> THEN <<>> ELSE Clean(JoinSep(nonEmpty, SLASH))

\* filepath.Ext: scan back from the end to the last "." of the final element
Ext(path) ==
    IF \E i \in 1..Len(path) : path[i] = DOT /\ \A j \in i..Len(path) : path[j] # SLASH
    THEN LET i == CHOOSE k \in 1..Len(path) :
                      /\ path[k] = DOT
                      /\ \A j \in (k + 1)..Len(path) : path[j] # DOT /\ path[j] # SLASH
         IN  SubSeq(path, i, Len(path))
    ELSE <<>>

\* whether p is path root or lies below it (both cleaned, absolute)
Under(p, root) ==
    \/ p = root
    \/ /\ Len(p) > Len(root)
       /\ SubSeq(p, 1, Len(root)) = root
       /\ p[Len(root) + 1] = SLASH

\* the directory holding p (p cleaned, absolute, not "/")
Parent(p) ==
    LET i == CHOOSE k \in 1..Len(p) : p[k] = SLASH /\ \A j \in (k + 1)..Len(p) : p[j] # SLASH
    IN  IF i = 1 THEN <<SLASH>> ELSE SubSeq(p, 1, i - 1)

\* whether p lies below directory d (both cleaned, absolute)
Below(p, d) == p # d /\ (d = <<SLASH>> \/ Under(p, d))

(***************************************************************************)
(* base64.StdEncoding and the credential check (basicAuth)                 *)
(***************************************************************************)
B64Alphabet ==
    <<"A", "B", "C", "D", "E", "F", "G", "H", "I", "J", "K", "L", "M", "N", "O", "P",
      "Q", "R", "S", "T", "U", "V", "W", "X", "Y", "Z", "a", "b", "c", "d", "e", "f",
      "g", "h", "i", "j", "k", "l", "m", "n", "o", "p", "q", "r", "s", "t", "u", "v",
      "w", "x", "y", "z", "0", "1", "2", "3", "4", "5", "6", "7", "8", "9", "+", "/">>

PAD == "="

B64Chars == {B64Alphabet[i] : i \in 1..Len(B64Alphabet)}

\* the decoder's table: an alphabet character's 6-bit value
B64DecodeMap == [c \in B64Chars |-> (CHOOSE i \in 1..Len(B64Alphabet) : B64Alphabet[i] = c) - 1]

IsB64(c) == c \in B64Chars

B64Value(c) == B64DecodeMap[c]

\* the bytes of a string of the characters the model's credentials use
Ascii(c) ==
    CASE c = ":" -> 58
      [] c = "p" -> 112
      [] c = "u" -> 117
      [] c = "x" -> 120

Bytes(s) == [i \in 1..Len(s) |-> Ascii(s[i])]

\* one group of up to three bytes, encoded with padding
EncodeGroup(b) ==
    LET n == Len(b)
        b1 == b[1]
        b2 == IF n >= 2 THEN b[2] ELSE 0
        b3 == IF n >= 3 THEN b[3] ELSE 0
        v == (b1 * 65536) + (b2 * 256) + b3
        c1 == B64Alphabet[(v \div 262144) + 1]
        c2 == B64Alphabet[((v \div 4096) % 64) + 1]
        c3 == B64Alphabet[((v \div 64) % 64) + 1]
        c4 == B64Alphabet[(v % 64) + 1]
    IN  IF n = 1 THEN <<c1, c2, PAD, PAD>>
        ELSE IF n = 2 THEN <<c1, c2, c3, PAD>>
        ELSE <<c1, c2, c3, c4>>

RECURSIVE EncodeToString(_)
\* base64.StdEncoding.EncodeToString
EncodeToString(b) ==
    IF b = <<>> THEN <<>>
    ELSE IF Len(b) <= 3 THEN EncodeGroup(b)
    ELSE EncodeGroup(SubSeq(b, 1, 3)) \o EncodeToString(SubSeq(b, 4, Len(b)))

\* one group of four characters, decoded; padding is legal in the last group only
DecodeGroup(q, last) ==
    LET full == \A i \in 1..4 : IsB64(q[i])
        pad1 == last /\ IsB64(q[1]) /\ IsB64(q[2]) /\ IsB64(q[3]) /\ q[4] = PAD
        pad2 == last /\ IsB64(q[1]) /\ IsB64(q[2]) /\ q[3] = PAD /\ q[4] = PAD
        v1 == B64Value(q[1])
        v2 == B64Value(q[2])
        v3 == IF pad2 THEN 0 ELSE B64Value(q[3])
        v4 == IF pad1 \/ pad2 THEN 0 ELSE B64Value(q[4])
        v == (v1 * 262144) + (v2 * 4096) + (v3 * 64) + v4
        out == <<v \div 65536, (v \div 256) % 256, v % 256>>
    IN  IF full THEN [ok |-> TRUE, bytes |-> out]
        ELSE IF pad1 THEN [ok |-> TRUE, bytes |-> SubSeq(out, 1, 2)]
        ELSE IF pad2 THEN [ok |-> TRUE, bytes |-> SubSeq(out, 1, 1)]
        ELSE [ok |-> FALSE, bytes |-> <<>>]

RECURSIVE DecodeString(_)
\* base64.StdEncoding.DecodeString: padded, not strict about trailing bits
DecodeString(s) ==
    IF s = <<>> THEN [ok |-> TRUE, bytes |-> <<>>]
    ELSE IF Len(s) < 4 THEN [ok |-> FALSE, bytes |-> <<>>]
    ELSE LET g == DecodeGroup(SubSeq(s, 1, 4), Len(s) = 4)
             rest == DecodeString(SubSeq(s, 5, Len(s)))
         IN  IF g.ok /\ rest.ok THEN [ok |-> TRUE, bytes |-> g.bytes \o rest.bytes]
             ELSE [ok |-> FALSE, bytes |-> <<>>]

\* strings.Cut: around the first sep
Cut(s, sep) ==
    IF \E i \in 1..Len(s) : s[i] = sep
    THEN LET i == CHOOSE k \in 1..Len(s) : s[k] = sep /\ \A j \in 1..(k - 1) : s[j] # sep
         IN  [before |-> SubSeq(s, 1, i - 1), after |-> SubSeq(s, i + 1, Len(s)), found |-> TRUE]
    ELSE [before |-> s, after |-> <<>>, found |-> FALSE]

BASIC == <<"B", "a", "s", "i", "c">>
SPACE == " "
COLON == 58
NIL == "nil"

\* a variant of basicAuth that does not test the scheme
basicAuth_AnyScheme(header, cfg) ==
    IF Len(header) = 0 THEN "authorization header is missing"
    ELSE LET c == Cut(header, SPACE)
         IN  IF ~c.found THEN "invalid authorization type"
             ELSE LET d == DecodeString(c.after)
                  IN  IF ~d.ok THEN "failed to decode basic auth info"
                      ELSE LET up == Cut(d.bytes, COLON)
                           IN  IF \/ ~up.found
                                  \/ up.before # Bytes(cfg.Username)
                                  \/ up.after # Bytes(cfg.Password)
                               THEN "invalid credentials"
                               ELSE NIL

\* basicAuth: NIL, or the error's text
basicAuth(header, cfg) ==
    IF Len(header) = 0 THEN "authorization header is missing"
    ELSE LET c == Cut(header, SPACE)
         IN  IF ~c.found \/ c.before # BASIC THEN "invalid authorization type"
             ELSE LET d == DecodeString(c.after)
                  IN  IF ~d.ok THEN "failed to decode basic auth info"
                      ELSE LET up == Cut(d.bytes, COLON)
                           IN  IF \/ ~up.found
                                  \/ up.before # Bytes(cfg.Username)
                                  \/ up.after # Bytes(cfg.Password)
                               THEN "invalid credentials"
                               ELSE NIL

POST == "POST"
GET == "GET"
NoResp == <<>>

Response(status, msg, url) == [status |-> status, msg |-> msg, url |-> url]

\* a variant of precheck that tests the credentials before the method
precheck_AuthFirst(method, header, hasFile, cfg) ==
    IF basicAuth(header, cfg) # NIL THEN <<Response(401, "Unauthorized", <<>>)>>
    ELSE IF method # POST THEN <<Response(405, "Method not allowed", <<>>)>>
    ELSE IF ~hasFile THEN <<Response(400, "Bad Request: Missing file", <<>>)>>
    ELSE NoResp

\* uploadHander's three precondition checks, in the code's order: the response
\* of the first that fails, or NoResp
precheck(method, header, hasFile, cfg) ==
    IF method # POST THEN <<Response(405, "Method not allowed", <<>>)>>
    ELSE IF basicAuth(header, cfg) # NIL THEN <<Response(401, "Unauthorized", <<>>)>>
    ELSE IF ~hasFile THEN <<Response(400, "Bad Request: Missing file", <<>>)>>
    ELSE NoResp

(***************************************************************************)
(* Configuration, clock, identifiers and the filesystem                    *)
(***************************************************************************)
\* the configuration main loads: upload_dir /d, access_prefix f, credentials u:p
Cfg ==
    [UploadDir |-> <<"/", "d">>, AccessPrefix |-> <<"f">>,
     Username |-> <<"u">>, Password |-> <<"p">>]

\* time.Now() on day t of the model's calendar, which starts on 2024-12-31
Now(t) ==
    IF t = 0 THEN [year |-> 2024, month |-> 12, day |-> 31]
    ELSE [year |-> 2025, month |-> 1, day |-> t]

\* a variant of NewUUID that hands out one identifier again and again
NewUUID_Repeat(n) == <<"i", "0", "0">>

\* uuid.New().String() for the n-th identifier handed out: a fixed-length
\* string without "." or "/", never handed out before
NewUUID(n) == <<"i">> \o Pad2(n)

\* a directory of the upload root the server's user may not search
LockedDir == <<"/", "d", "/", "k">>

\* a file that lies outside the upload root
OutsideFile == <<"/", "s">>

InitDirs == {<<"/">>, Cfg.UploadDir, LockedDir}
InitFiles == (OutsideFile :> <<"S">>)

\* the error of os.Stat(p)
Stat(p) ==
    IF Below(p, LockedDir) THEN "EACCES"
    ELSE IF p \in DOMAIN files \/ p \in dirs THEN NIL
    ELSE IF \E f \in DOMAIN files : Below(p, f) THEN "ENOTDIR"
    ELSE "ENOENT"

\* os.IsNotExist
IsNotExist(err) == err = "ENOENT"

\* a file's content after a write of byte b at offset off
WriteAt(old, off, b) ==
    [i \in 1..(IF Len(old) > off + 1 THEN Len(old) ELSE off + 1) |->
        IF i = off + 1 THEN b ELSE IF i <= Len(old) THEN old[i] ELSE "\\0"]

RECURSIVE MissingDirs(_)
\* the directories os.MkdirAll(p) has to make, outermost first
MissingDirs(p) ==
    IF p \in dirs \/ p = <<SLASH>> THEN <<>> ELSE Append(MissingDirs(Parent(p)), p)

(***************************************************************************)
(* Requests                                                                *)
(***************************************************************************)
\* Authorization headers a client sends: none, the configured pair, a wrong
\* password
GoodHeader == BASIC \o <<SPACE>> \o EncodeToString(Bytes(<<"u", ":", "p">>))
ServerHeaders ==
    { <<>>,
      GoodHeader,
      BASIC \o <<SPACE>> \o EncodeToString(Bytes(<<"u", ":", "x">>)) }

\* multipart forms: without the file field, or with a file (its client-supplied
\* name and its bytes)
NoFile == [hasFile |-> FALSE, name |-> <<>>, content |-> <<>>]
Forms ==
    { NoFile,
      [hasFile |-> TRUE, name |-> <<"a", ".", "p", "n", "g">>, content |-> <<"x">>],
      [hasFile |-> TRUE, name |-> <<"R", "E">>, content |-> <<>>] }

IdleReq ==
    [pc |-> "idle", form |-> NoFile, uuid |-> <<>>, now |-> Now(0),
     timeNameString |-> <<>>, dirPath |-> <<>>, filePath |-> <<>>,
     written |-> 0, resp |-> <<>>, ops |-> <<>>, created |-> {}]

\* route segments a client asks for: those of every name an ingest was given,
\* a name nothing is stored under, a name in the locked directory, and a walk
\* out of the upload root
FixedSegs ==
    { <<<<"0">>, <<"0">>, <<"0">>, <<"n">>>>,
      <<<<"k">>, <<"0">>, <<"0">>, <<"n">>>>,
      <<DOTDOT, <<DOT>>, <<DOT>>, <<"s">>>> }

GetSamples ==
    FixedSegs \cup { Split(req[r].timeNameString, SLASH) : r \in {q \in Slots : req[q].pc # "idle"} }

NoReply == [kind |-> "none"]

(***************************************************************************)
(* Retrieve                                                                *)
(***************************************************************************)
\* http.ServeFile's containsDotDot: ".." is an element between slashes
containsDotDot(urlPath) ==
    LET parts == Split([i \in 1..Len(urlPath) |-> IF urlPath[i] = "\\" THEN SLASH ELSE urlPath[i]], SLASH)
    IN  \E i \in 1..Len(parts) : parts[i] = DOTDOT

\* strings.HasSuffix
HasSuffix(str, suffix) ==
    Len(str) >= Len(suffix) /\ SubSeq(str, Len(str) - Len(suffix) + 1, Len(str)) = suffix

\* net/http's indexPage, which ServeFile redirects away from
IndexPage == <<"/", "i", "n", "d", "e", "x", ".", "h", "t", "m", "l">>

\* http.ServeFile(w, r, name): the status, what is served, and the body
ServeFile(urlPath, name) ==
    LET err == Stat(name)
    IN  IF containsDotDot(urlPath)
        THEN [status |-> 400, served |-> "none", body |-> <<>>]
        ELSE IF HasSuffix(urlPath, IndexPage)
        THEN [status |-> 301, served |-> "none", body |-> <<>>]
        ELSE IF err = "ENOENT" \/ err = "ENOTDIR"
        THEN [status |-> 404, served |-> "none", body |-> <<>>]
        ELSE IF err = "EACCES"
        THEN [status |-> 403, served |-> "none", body |-> <<>>]
        ELSE IF name \in dirs
        THEN [status |-> 200, served |-> "listing", body |-> <<>>]
        ELSE [status |-> 200, served |-> "file", body |-> files[name]]

\* a variant of getResult that joins day before month
getResult_DayMonth(segs) ==
    LET filePath == Join(<<Cfg.UploadDir, segs[1], segs[3], segs[2], segs[4]>>)
        urlPath == <<SLASH>> \o JoinSep(<<Cfg.AccessPrefix, segs[1], segs[2], segs[3], segs[4]>>, SLASH)
        err == Stat(filePath)
        base == [kind |-> "get", segs |-> segs, path |-> filePath, statErr |-> err]
    IN  IF IsNotExist(err)
        THEN base @@ [status |-> 404, by |-> "NotFound", served |-> "none", body |-> <<>>]
        ELSE base @@ [by |-> "ServeFile"] @@ ServeFile(urlPath, filePath)

\* a variant of getResult that answers 404 on any stat error (err != nil)
getResult_AnyErr(segs) ==
    LET filePath == Join(<<Cfg.UploadDir, segs[1], segs[2], segs[3], segs[4]>>)
        urlPath == <<SLASH>> \o JoinSep(<<Cfg.AccessPrefix, segs[1], segs[2], segs[3], segs[4]>>, SLASH)
        err == Stat(filePath)
        base == [kind |-> "get", segs |-> segs, path |-> filePath, statErr |-> err]
    IN  IF err # NIL
        THEN base @@ [status |-> 404, by |-> "NotFound", served |-> "none", body |-> <<>>]
        ELSE base @@ [by |-> "ServeFile"] @@ ServeFile(urlPath, filePath)

\* getHandler's response to the route segments segs
getResult(segs) ==
    LET filePath == Join(<<Cfg.UploadDir, segs[1], segs[2], segs[3], segs[4]>>)
        urlPath == <<SLASH>> \o JoinSep(<<Cfg.AccessPrefix, segs[1], segs[2], segs[3], segs[4]>>, SLASH)
        err == Stat(filePath)
        base == [kind |-> "get", segs |-> segs, path |-> filePath, statErr |-> err]
    IN  IF IsNotExist(err)
        THEN base @@ [status |-> 404, by |-> "NotFound", served |-> "none", body |-> <<>>]
        ELSE base @@ [by |-> "ServeFile"] @@ ServeFile(urlPath, filePath)

\* a retrieval, from the route match to the end of the response
getHandler ==
    /\ reply = NoReply
    /\ \E segs \in GetSamples : reply' = getResult(segs)
    /\ UNCHANGED <<req, files, dirs, clock, issued, authVars>>

\* a handler that ran in one step returns: its response is the client's
Return ==
    /\ reply # NoReply
    /\ reply' = NoReply
    /\ UNCHANGED <<req, files, dirs, clock, issued, authVars>>

(***************************************************************************)
(* Ingest                                                                  *)
(***************************************************************************)
InternalError == Response(500, "Internal Server Error", <<>>)

Finish(r, response, op) ==
    [req EXCEPT ![r].pc = "done",
                ![r].resp = Append(@, response),
                ![r].ops = IF op = "" THEN @ ELSE Append(@, op)]

\* a variant of Names that stores under the client-supplied filename
Names_ClientName(form, t, n) ==
    LET now == Now(t)
        filename == form.name
        timePath == Itoa(now.year) \o <<SLASH>> \o Pad2(now.month) \o <<SLASH>> \o Pad2(now.day)
        timeNameString == timePath \o <<SLASH>> \o filename
    IN  [uuid |-> NewUUID(n), now |-> now, timeNameString |-> timeNameString,
         dirPath |-> Join(<<Cfg.UploadDir, timePath>>),
         filePath |-> Join(<<Cfg.UploadDir, timeNameString>>)]

\* lines 79-85: the names uploadHander computes for an accepted request, on day
\* t, with the n-th identifier
Names(form, t, n) ==
    LET now == Now(t)
        ext == Ext(form.name)
        filename == NewUUID(n) \o ext
        timePath == Itoa(now.year) \o <<SLASH>> \o Pad2(now.month) \o <<SLASH>> \o Pad2(now.day)
        timeNameString == timePath \o <<SLASH>> \o filename
    IN  [uuid |-> NewUUID(n), now |-> now, timeNameString |-> timeNameString,
         dirPath |-> Join(<<Cfg.UploadDir, timePath>>),
         filePath |-> Join(<<Cfg.UploadDir, timeNameString>>)]

\* a variant of uploadHander that makes the day's directory before its checks
uploadHander_MkdirFirst(r) ==
    /\ reply = NoReply
    /\ req[r].pc = "idle"
    /\ \A q \in Slots : q < r => req[q].pc # "idle"
    /\ \E method \in {POST, GET}, header \in ServerHeaders, form \in Forms :
          LET rejected == precheck(method, header, form.hasFile, Cfg)
              names == Names(form, clock, issued + 1)
              missing == MissingDirs(names.dirPath)
          IN  /\ dirs' = dirs \cup {missing[i] : i \in 1..Len(missing)}
              /\ IF rejected # NoResp
                 THEN /\ reply' = [kind |-> "ingest", method |-> method, header |-> header,
                                   hasFile |-> form.hasFile, resp |-> rejected]
                      /\ UNCHANGED <<req, issued>>
                 ELSE /\ req' = [req EXCEPT ![r] = names @@ [req[r] EXCEPT !.pc = "mkdir", !.form = form]]
                      /\ issued' = issued + 1
                      /\ UNCHANGED reply
    /\ UNCHANGED <<files, clock, authVars>>

\* lines 64-85: a request arrives; it is rejected and the handler returns, or
\* it is given its storage names and goes on, on the next free connection r
uploadHander(r) ==
    /\ reply = NoReply
    /\ req[r].pc = "idle"
    /\ \A q \in Slots : q < r => req[q].pc # "idle"
    /\ \E method \in {POST, GET}, header \in ServerHeaders, form \in Forms :
          LET rejected == precheck(method, header, form.hasFile, Cfg)
          IN  IF rejected # NoResp
              THEN /\ reply' = [kind |-> "ingest", method |-> method, header |-> header,
                                hasFile |-> form.hasFile, resp |-> rejected]
                   /\ UNCHANGED <<req, issued>>
              ELSE /\ req' = [req EXCEPT ![r] = Names(form, clock, issued + 1)
                                                  @@ [req[r] EXCEPT !.pc = "mkdir", !.form = form]]
                   /\ issued' = issued + 1
                   /\ UNCHANGED reply
    /\ UNCHANGED <<files, dirs, clock, authVars>>

\* a variant of MkdirAll that answers 500 and does not return
MkdirAll_NoReturn(r) ==
    /\ reply = NoReply
    /\ req[r].pc = "mkdir"
    /\ LET missing == MissingDirs(req[r].dirPath)
       IN  \/ /\ dirs' = dirs \cup {missing[i] : i \in 1..Len(missing)}
              /\ req' = [req EXCEPT ![r].pc = "create", ![r].ops = Append(@, "mkdir")]
           \/ /\ missing # <<>>
              /\ req' = [req EXCEPT ![r].pc = "create",
                                    ![r].resp = Append(@, InternalError),
                                    ![r].ops = Append(@, "mkdir failed")]
              /\ UNCHANGED dirs
    /\ UNCHANGED <<files, clock, issued, reply, authVars>>

\* lines 86-90: os.MkdirAll(dirPath) makes the missing directories, or fails (at
\* the first it has to make) and the handler answers 500
MkdirAll(r) ==
    /\ reply = NoReply
    /\ req[r].pc = "mkdir"
    /\ LET missing == MissingDirs(req[r].dirPath)
       IN  \/ /\ dirs' = dirs \cup {missing[i] : i \in 1..Len(missing)}
              /\ req' = [req EXCEPT ![r].pc = "create", ![r].ops = Append(@, "mkdir")]
           \/ /\ missing # <<>>
              /\ req' = Finish(r, InternalError, "mkdir failed")
              /\ UNCHANGED dirs
    /\ UNCHANGED <<files, clock, issued, reply, authVars>>

\* lines 91-95: os.Create(filePath) creates or truncates the file, or fails and
\* the handler answers 500
Create(r) ==
    /\ reply = NoReply
    /\ req[r].pc = "create"
    /\ \/ /\ files' = (req[r].filePath :> <<>>) @@ files
          /\ req' = [req EXCEPT ![r].pc = "copy", ![r].ops = Append(@, "create"),
                                ![r].created = @ \cup {req[r].filePath}]
       \/ /\ req' = Finish(r, InternalError, "create failed")
          /\ UNCHANGED files
    /\ UNCHANGED <<dirs, clock, issued, reply, authVars>>

\* lines 97-104: io.Copy writes the upload to the file, a byte at a time here;
\* a write may fail and the handler answers 500; at the end of the upload the
\* handler answers 200 with the public URL
Copy(r) ==
    /\ reply = NoReply
    /\ req[r].pc = "copy"
    /\ LET content == req[r].form.content
           off == req[r].written
       IN  \/ /\ off < Len(content)
              /\ files' = [files EXCEPT ![req[r].filePath] = WriteAt(@, off, content[off + 1])]
              /\ req' = [req EXCEPT ![r].written = off + 1]
           \/ /\ off < Len(content)
              /\ req' = Finish(r, InternalError, "copy failed")
              /\ UNCHANGED files
           \/ /\ off = Len(content)
              /\ req' = Finish(r, Response(200, "", Cfg.AccessPrefix \o <<SLASH>> \o req[r].timeNameString), "copy")
              /\ UNCHANGED files
    /\ UNCHANGED <<dirs, clock, issued, reply, authVars>>

\* a day passes
Tick ==
    /\ reply = NoReply
    /\ clock < MaxClock
    /\ clock' = clock + 1
    /\ UNCHANGED <<req, files, dirs, issued, reply, authVars>>

(***************************************************************************)
(* The credential check on its own, over many headers and configurations   *)
(***************************************************************************)
AuthIdle == [Username |-> <<>>, Password |-> <<>>]
NotChecked == [done |-> FALSE, err |-> NIL, resp |-> NoResp]

RECURSIVE SeqsUpTo(_, _)
\* the sequences over S of length at most n
SeqsUpTo(S, n) ==
    IF n = 0 THEN {<<>>}
    ELSE LET shorter == SeqsUpTo(S, n - 1)
         IN  shorter \cup {Append(q, x) : q \in shorter, x \in S}

\* what a client puts under base64: strings of "u", "p" and ":"
Plaintexts == SeqsUpTo({Ascii("u"), Ascii("p"), Ascii(":")}, MaxPlain)

\* the header values built on encoding enc: well-formed, other schemes, other
\* separators, and damaged encodings
HeadersOn(enc) ==
    { BASIC \o <<SPACE>> \o enc,
      <<"b", "a", "s", "i", "c", SPACE>> \o enc,
      <<"B", "e", "a", "r", "e", "r", SPACE>> \o enc,
      BASIC \o enc,
      BASIC \o <<SPACE, SPACE>> \o enc,
      BASIC \o <<SPACE>> \o SubSeq(enc, 1, Len(enc) - 1),
      BASIC \o <<SPACE>> \o SubSeq(enc, 1, Len(enc) - 1) \o <<"!">>,
      BASIC \o <<SPACE>> \o enc \o enc }

AuthHeaders == {<<>>} \cup UNION {HeadersOn(EncodeToString(b)) : b \in Plaintexts}

AuthCfgs ==
    [Username : {<<>>, <<"u">>}, Password : {<<>>, <<"p">>, <<":">>, <<"p", ":">>}]

\* lines 68-72: uploadHander runs the credential check of a POST request that
\* carries a file
Authenticate ==
    /\ ~authResult.done
    /\ authResult' = [done |-> TRUE, err |-> basicAuth(authHeader, authCfg),
                      resp |-> precheck(POST, authHeader, TRUE, authCfg)]
    /\ UNCHANGED <<serverVars, authCfg, authHeader>>

Init ==
    /\ req = [r \in Slots |-> IdleReq]
    /\ files = InitFiles
    /\ dirs = InitDirs
    /\ clock = 0
    /\ issued = 0
    /\ reply = NoReply
    /\ authCfg = AuthIdle
    /\ authHeader = <<>>
    /\ authResult = NotChecked

Next ==
    \/ \E r \in Slots : uploadHander(r)
    \/ \E r \in Slots : MkdirAll(r)
    \/ \E r \in Slots : Create(r)
    \/ \E r \in Slots : Copy(r)
    \/ getHandler
    \/ Return
    \/ Tick

Spec == Init /\ [][Next]_vars

AuthInit ==
    /\ req = [r \in Slots |-> IdleReq]
    /\ files = InitFiles
    /\ dirs = InitDirs
    /\ clock = 0
    /\ issued = 0
    /\ reply = NoReply
    /\ authCfg \in AuthCfgs
    /\ authHeader \in AuthHeaders
    /\ authResult = NotChecked

AuthNext == Authenticate

SpecAuth == AuthInit /\ [][AuthNext]_vars

(***************************************************************************)
(* Properties                                                              *)
(***************************************************************************)
Answered(r, status) ==
    req[r].pc = "done" /\ Len(req[r].resp) >= 1 /\ req[r].resp[1].status = status

\* the four route segments of a public URL accessPrefix/Y/M/D/name
SegsOf(url) == LET parts == Split(url, SLASH) IN SubSeq(parts, 2, Len(parts))

RECURSIVE ToInt(_)
\* the number a string of decimal digits writes
ToInt(str) ==
    IF str = <<>> THEN 0
    ELSE (10 * ToInt(SubSeq(str, 1, Len(str) - 1)))
         + ((CHOOSE i \in 1..10 : Digits[i] = str[Len(str)]) - 1)

IsDigits(str) == str # <<>> /\ \A i \in 1..Len(str) : \E d \in 1..10 : Digits[d] = str[i]

\* e is the extension of name: from its last "." on, or empty when it has none
IsExtensionOf(e, name) ==
    IF \A i \in 1..Len(name) : name[i] # DOT THEN e = <<>>
    ELSE /\ Len(e) >= 1 /\ Len(e) <= Len(name)
         /\ e = SubSeq(name, Len(name) - Len(e) + 1, Len(name))
         /\ e[1] = DOT
         /\ \A i \in 2..Len(e) : e[i] # DOT

\* C1: for every ingest that answered 200 with body accessPrefix/Y/M/D/name, a
\* retrieval of the segments (Y, M, D, name), made now or in any later state,
\* answers 200 and returns exactly the bytes uploaded in that ingest.
C1_RoundTrip ==
    \A r \in Slots :
        Answered(r, 200) =>
            LET url == req[r].resp[1].url
                parts == Split(url, SLASH)
                got == getResult(SegsOf(url))
            IN  /\ Len(parts) = 5
                /\ parts[1] = Cfg.AccessPrefix
                /\ got.status = 200
                /\ got.served = "file"
                /\ got.body = req[r].form.content

\* a retrieval has returned the non-empty upload of an ingest that answered 200
\* while another ingest had been accepted
C1_Witness ==
    /\ reply.kind = "get"
    /\ \E r \in Slots :
          /\ Answered(r, 200)
          /\ req[r].form.content # <<>>
          /\ reply.segs = SegsOf(req[r].resp[1].url)
          /\ reply.status = 200
          /\ reply.body = req[r].form.content
          /\ \E q \in Slots : q # r /\ req[q].pc # "idle"

\* C2: a step in which an ingest is answered 405, 401 or 400 changes no file and
\* no directory, and leaves every ingest in progress where it was.
C2_RejectedLeavesStorage ==
    [][ (/\ reply.kind = "none"
         /\ reply'.kind = "ingest"
         /\ reply'.resp[1].status \in {405, 401, 400})
        => (files' = files /\ dirs' = dirs /\ req' = req) ]_vars

\* an ingest was answered 401 when files had been stored
C2_Witness ==
    /\ reply.kind = "ingest"
    /\ reply.resp[1].status = 401
    /\ DOMAIN files # DOMAIN InitFiles

\* C3: the status of a rejected ingest is that of the first violated
\* precondition in the order method, credentials, file field.
C3_CheckOrder ==
    reply.kind = "ingest" =>
        LET status == reply.resp[1].status
            post == reply.method = POST
            creds == reply.header = GoodHeader
        IN  /\ Len(reply.resp) = 1
            /\ ~post => status = 405
            /\ (post /\ ~creds) => status = 401
            /\ (post /\ creds) => (status = 400 /\ ~reply.hasFile)
            /\ status = 400 => (post /\ creds /\ ~reply.hasFile)

\* a request that violates all three preconditions was answered 405
C3_Witness ==
    /\ reply.kind = "ingest"
    /\ reply.method = GET
    /\ reply.header # GoodHeader
    /\ ~reply.hasFile
    /\ reply.resp[1].status = 405

\* the header is "Basic " followed by an encoding that decodes to
\* username ":" password, split at the first ":", with both fields the configured ones
Accepts(header, cfg) ==
    /\ Len(header) >= 6
    /\ SubSeq(header, 1, 6) = BASIC \o <<SPACE>>
    /\ LET d == DecodeString(SubSeq(header, 7, Len(header)))
       IN  /\ d.ok
           /\ \E i \in 1..Len(d.bytes) :
                 /\ d.bytes[i] = COLON
                 /\ \A j \in 1..(i - 1) : d.bytes[j] # COLON
                 /\ SubSeq(d.bytes, 1, i - 1) = Bytes(cfg.Username)
                 /\ SubSeq(d.bytes, i + 1, Len(d.bytes)) = Bytes(cfg.Password)

\* C4: the credential check succeeds if and only if the header is present, uses
\* the Basic scheme, decodes to username:password and both fields match the
\* configured pair; for every other header the ingest answers 401.
C4_BasicAuth ==
    authResult.done =>
        /\ (authResult.err = NIL) <=> Accepts(authHeader, authCfg)
        /\ (authResult.err # NIL) =>
               (Len(authResult.resp) = 1 /\ authResult.resp[1].status = 401)
        /\ (authResult.err = NIL) => authResult.resp = NoResp

\* the check accepted a password that holds a ":"
C4_Witness ==
    /\ authResult.done
    /\ authResult.err = NIL
    /\ authCfg.Password = <<":">>
    /\ authCfg.Username = <<"u">>

\* C5: every ingest that reaches the storage steps has a storage path of its
\* own, and the files an ingest creates are at its own path only.
C5_NoCollision ==
    \A r1, r2 \in Slots :
        (r1 # r2 /\ req[r1].pc # "idle" /\ req[r2].pc # "idle") =>
            /\ req[r1].filePath # req[r2].filePath
            /\ req[r1].created \subseteq {req[r1].filePath}
            /\ req[r2].filePath \notin req[r1].created

\* two ingests of the same client filename and content on the same day are
\* both in their storage steps
C5_Witness ==
    \E r1, r2 \in Slots :
        /\ r1 # r2
        /\ req[r1].pc = "copy" /\ req[r2].pc = "copy"
        /\ req[r1].form = req[r2].form
        /\ req[r1].now = req[r2].now

\* C6: the file of an ingest that answered 200 is in every later state at the
\* same path with the uploaded bytes.
C6_Immutable ==
    \A r \in Slots :
        Answered(r, 200) =>
            /\ req[r].filePath \in DOMAIN files
            /\ files[req[r].filePath] = req[r].form.content

\* after an ingest answered 200, a second ingest of the same day has written
\* its own file and a retrieval has run
C6_Witness ==
    /\ reply.kind = "get"
    /\ \E r, q \in Slots :
          /\ r < q
          /\ Answered(r, 200) /\ Answered(q, 200)
          /\ req[r].now = req[q].now
          /\ req[r].form.content # <<>>

\* C7: an ingest that answered 200 created exactly one file; the body is
\* accessPrefix/relativePath and the file is uploadRoot/relativePath, where
\* relativePath is year/month/day/randomID+extension with month and day of two
\* digits and extension that of the client-supplied filename; and the files of
\* the filesystem are those the ingests created.
C7_OneFileSameKey ==
    /\ DOMAIN files = (DOMAIN InitFiles) \cup UNION {req[q].created : q \in Slots}
    /\ \A r \in Slots :
          Answered(r, 200) =>
              LET url == req[r].resp[1].url
                  rel == SubSeq(url, Len(Cfg.AccessPrefix) + 2, Len(url))
                  parts == Split(rel, SLASH)
              IN  /\ url = Cfg.AccessPrefix \o <<SLASH>> \o rel
                  /\ req[r].created = {Cfg.UploadDir \o <<SLASH>> \o rel}
                  /\ Cardinality(req[r].created) = 1
                  /\ Len(parts) = 4
                  /\ IsDigits(parts[1]) /\ ToInt(parts[1]) = req[r].now.year
                  /\ parts[1][1] # "0"
                  /\ Len(parts[2]) = 2 /\ IsDigits(parts[2]) /\ ToInt(parts[2]) = req[r].now.month
                  /\ Len(parts[3]) = 2 /\ IsDigits(parts[3]) /\ ToInt(parts[3]) = req[r].now.day
                  /\ Len(parts[4]) >= Len(req[r].uuid)
                  /\ SubSeq(parts[4], 1, Len(req[r].uuid)) = req[r].uuid
                  /\ IsExtensionOf(SubSeq(parts[4], Len(req[r].uuid) + 1, Len(parts[4])),
                                   req[r].form.name)

\* ingests answered 200 on a day and in a month of one digit, one for a
\* filename with an extension and one for a filename without
C7_Witness ==
    \E r, q \in Slots :
        /\ Answered(r, 200) /\ Answered(q, 200)
        /\ req[r].now.day < 10 /\ req[r].now.month < 10
        /\ Ext(req[r].form.name) # <<>>
        /\ Ext(req[q].form.name) = <<>>

StorageFailures == {"mkdir failed", "create failed", "copy failed"}

\* C9: every ingest gets exactly one response, with status 200, 400, 401, 405
\* or 500; a failed storage step is the last step the ingest runs and its
\* response is the generic 500; nothing is created after a failed directory
\* creation, nothing written after a failed file creation; 200 is sent only
\* after directory creation, file creation and copy all succeeded.
C9_StorageFailure500 ==
    /\ reply.kind = "ingest" =>
           (Len(reply.resp) = 1 /\ reply.resp[1].status \in {400, 401, 405})
    /\ \A r \in Slots :
          LET ops == req[r].ops
              resp == req[r].resp
          IN  /\ Len(resp) <= 1
              /\ (req[r].pc = "done") <=> (Len(resp) = 1)
              /\ \A i \in 1..Len(resp) : resp[i].status \in {200, 500}
              /\ \A i \in 1..(Len(ops) - 1) : ops[i] \notin StorageFailures
              /\ (ops # <<>> /\ ops[Len(ops)] \in StorageFailures) =>
                     (req[r].pc = "done" /\ resp = <<InternalError>>)
              /\ (ops # <<>> /\ ops[Len(ops)] = "mkdir failed") =>
                     (req[r].created = {} /\ req[r].filePath \notin DOMAIN files)
              /\ (ops # <<>> /\ ops[Len(ops)] = "create failed") =>
                     (req[r].created = {} /\ req[r].written = 0
                      /\ req[r].filePath \notin DOMAIN files)
              /\ Answered(r, 200) =>
                     (ops = <<"mkdir", "create", "copy">> /\ resp[1].url # <<>>)
              /\ Answered(r, 500) => (ops # <<>> /\ ops[Len(ops)] \in StorageFailures)

\* one ingest failed at the copy and another at the directory creation
C9_Witness ==
    \E r, q \in Slots :
        /\ req[r].pc = "done" /\ req[r].ops = <<"mkdir", "create", "copy failed">>
        /\ req[q].pc = "done" /\ req[q].ops = <<"mkdir failed">>

====
